---- MODULE Spec2Model ----
(***************************************************************************)
(* Model of generate_icons.py: create_icon(size, output_path) renders a    *)
(* square badge (rounded outline + cross) with Pillow and saves it as PNG; *)
(* the module top level calls it for 192 and for 512.                      *)
(*                                                                         *)
(* A canvas is modelled by its dimensions, its background fill and the     *)
(* ordered list of drawing calls applied to it, each with the exact        *)
(* arguments the code computes.  The filesystem is the icons/ directory    *)
(* (missing, readonly or writable) and the content found at each path.     *)
(***************************************************************************)
EXTENDS Integers, Sequences, FiniteSets, TLC

VARIABLES
    dir,        \* state of the icons/ directory
    files,      \* content found at each output path
    script,     \* the calls the top level makes, in program order
    ip,         \* top level: index of the call statement being executed
    frame,      \* one activation record of create_icon per call statement
    exit,       \* "running", "success" (exit status 0), "failure" (uncaught error)
    written,    \* history: paths this run has written
    attempts,   \* history: number of img.save calls this run has made
    snap        \* history: the filesystem content when each call was entered

vars == <<dir, files, script, ip, frame, exit, written, attempts, snap>>

\* Largest size drawn as an input when create_icon is checked for every size.
MaxSize == 520

----------------------------------------------------------------------------
\* Literals of the source.

BG == "#0a0a0f"
GOLD == "#f0c674"
P192 == "icons/icon-192.png"
P512 == "icons/icon-512.png"
Paths == {P192, P512}

\* Mutant: the two paths exchanged between the calls.
TheScriptSwapped ==
    << [size |-> 192, path |-> P512],
       [size |-> 512, path |-> P192] >>

TheScript ==
    << [size |-> 192, path |-> P192],
       [size |-> 512, path |-> P512] >>

Calls == 1..Len(TheScript)

----------------------------------------------------------------------------
\* Geometry of create_icon (// is floor division; every operand is >= 0).

Max(a, b) == IF a >= b THEN a ELSE b

\* Mutant: the inset taken as a fifth of the size.
padding_fifth(size) == size \div 5

padding(size) == size \div 10

\* Mutant: the floor of 2 dropped.
border_width_nofloor(size) == size \div 25

border_width(size) == Max(2, size \div 25)

\* Mutant: the radius taken as the size itself.
corner_radius_full(size) == size

corner_radius(size) == size \div 6

center(size) == size \div 2

\* Mutant: the arm span taken as the size itself.
cross_size_full(size) == size

\* Mutant: the arm span taken as a quarter of the size.
cross_size_quarter(size) == size \div 4

cross_size(size) == size \div 3

cross_width(size) == size \div 8

----------------------------------------------------------------------------
\* Canvas and drawing calls.

NoImage == [size |-> <<0, 0>>, bg |-> "none", ops |-> <<>>]

\* Image.new('RGB', (size, size), '#0a0a0f')
Image_new(size) == [size |-> <<size, size>>, bg |-> BG, ops |-> <<>>]

Draw(img, op) == [img EXCEPT !.ops = Append(@, op)]

\* draw.rounded_rectangle([padding, padding, size - padding, size - padding],
\*                        radius=size // 6, outline='#f0c674', width=border_width)
OutlineOp(size) ==
    [shape   |-> "rounded_rectangle",
     xy      |-> <<padding(size), padding(size),
                   size - padding(size), size - padding(size)>>,
     radius  |-> corner_radius(size),
     outline |-> GOLD,
     fill    |-> "none",
     width   |-> border_width(size)]

\* draw.rectangle([center - cross_width//2, center - cross_size//2,
\*                 center + cross_width//2, center + cross_size//2], fill='#f0c674')
VBarOp(size) ==
    [shape   |-> "rectangle",
     xy      |-> <<center(size) - cross_width(size) \div 2,
                   center(size) - cross_size(size) \div 2,
                   center(size) + cross_width(size) \div 2,
                   center(size) + cross_size(size) \div 2>>,
     radius  |-> 0,
     outline |-> "none",
     fill    |-> GOLD,
     width   |-> 0]

\* draw.rectangle([center - cross_size//2, center - cross_width//2,
\*                 center + cross_size//2, center + cross_width//2], fill='#f0c674')
HBarOp(size) ==
    [shape   |-> "rectangle",
     xy      |-> <<center(size) - cross_size(size) \div 2,
                   center(size) - cross_width(size) \div 2,
                   center(size) + cross_size(size) \div 2,
                   center(size) + cross_width(size) \div 2>>,
     radius  |-> 0,
     outline |-> "none",
     fill    |-> GOLD,
     width   |-> 0]

\* The canvas create_icon hands to img.save, as one expression: the value of
\* img after lines 4 to 13.
Render(size) ==
    Draw(Draw(Draw(Image_new(size), OutlineOp(size)), VBarOp(size)), HBarOp(size))

----------------------------------------------------------------------------
\* Filesystem.

Absent == [kind |-> "absent", img |-> NoImage]
Stale == [kind |-> "other", img |-> NoImage]
PNG(img) == [kind |-> "png", img |-> img]

\* Some PNG left at a path by an earlier, unrelated program.
OldPNG == PNG([size |-> <<1, 1>>, bg |-> "#ffffff", ops |-> <<>>])

DirStates == {"missing", "readonly", "writable"}

\* A file cannot exist inside a directory that does not exist.
InitFiles(d) ==
    IF d = "missing"
    THEN {[p \in Paths |-> Absent]}
    ELSE [Paths -> {Absent, Stale, OldPNG}]

\* Mutant: missing parent directories are created before the file is opened.
CanOpenMkdirs(d, old) ==
    \/ d \in {"writable", "missing"}
    \/ d = "readonly" /\ old.kind # "absent"

\* img.save opens output_path with mode "w+b": creating a new entry needs an
\* existing, writable directory; truncating an existing file needs only the
\* directory to exist.
CanOpen(d, old) ==
    \/ d = "writable"
    \/ d = "readonly" /\ old.kind # "absent"

\* Mutant: an existing file is kept instead of overwritten.
StoreIfAbsent(old, img) == IF old.kind = "absent" THEN PNG(img) ELSE old

\* What img.save(output_path, 'PNG') leaves at the path: the file is truncated
\* and the encoded canvas written, whatever was there.
Store(old, img) == PNG(img)

----------------------------------------------------------------------------
\* State.

PendingFrame ==
    [size |-> 0, output_path |-> "", img |-> NoImage, pc |-> "pending",
     error |-> "none"]

InitWith(sc) ==
    /\ dir \in DirStates
    /\ files \in InitFiles(dir)
    /\ script = sc
    /\ ip = 1
    /\ frame = [i \in Calls |-> PendingFrame]
    /\ exit = "running"
    /\ written = {}
    /\ attempts = 0
    /\ snap = [i \in Calls |-> files]

\* The program as written: the two literal calls.
Init == InitWith(TheScript)

\* create_icon(s, p) called twice in succession, for every size and path.
InitArgs ==
    \E s \in 1..MaxSize, p \in Paths :
        InitWith(<< [size |-> s, path |-> p], [size |-> s, path |-> p] >>)

----------------------------------------------------------------------------
\* Mutant: img.save placed before the second draw.rectangle.
NextPcSaveEarly(pc) ==
    CASE pc = "new"     -> "outline"
      [] pc = "outline" -> "vbar"
      [] pc = "vbar"    -> "save"
      [] pc = "save"    -> "hbar"
      [] pc = "hbar"    -> "returned"

\* Statement order inside create_icon.
NextPc(pc) ==
    CASE pc = "new"     -> "outline"
      [] pc = "outline" -> "vbar"
      [] pc = "vbar"    -> "hbar"
      [] pc = "hbar"    -> "save"
      [] pc = "save"    -> "returned"

\* Mutant: img is a module-level variable shared by every activation.
SetImgGlobal(i, v) ==
    [j \in Calls |->
        [frame[j] EXCEPT !.img = v, !.pc = IF j = i THEN NextPc(@) ELSE @]]

\* img and draw are locals of the activation: assigning one touches no other
\* activation.
SetImg(i, v) == [frame EXCEPT ![i].img = v, ![i].pc = NextPc(@)]

\* Mutant: the error is swallowed and the top level goes on to the next call.
OnRaiseSwallow(i) == [ip |-> i + 1, exit |-> "running"]

\* No handler surrounds the calls: an error raised by create_icon is uncaught
\* and ends the interpreter with a failure status.
OnRaise(i) == [ip |-> i, exit |-> "failure"]

Enter(i) ==
    /\ frame' = [frame EXCEPT ![i] =
                    [size |-> script[i].size, output_path |-> script[i].path,
                     img |-> NoImage, pc |-> "new", error |-> "none"]]
    /\ snap' = [snap EXCEPT ![i] = files]

\* Top level, sequential: the call statement at ip.
Call(i) ==
    /\ exit = "running"
    /\ ip = i
    /\ frame[i].pc = "pending"
    /\ Enter(i)
    /\ UNCHANGED <<dir, files, script, ip, exit, written, attempts>>

New(i) ==
    /\ exit = "running"
    /\ frame[i].pc = "new"
    /\ frame' = SetImg(i, Image_new(frame[i].size))
    /\ UNCHANGED <<dir, files, script, ip, exit, written, attempts, snap>>

DrawOutline(i) ==
    /\ exit = "running"
    /\ frame[i].pc = "outline"
    /\ frame' = SetImg(i, Draw(frame[i].img, OutlineOp(frame[i].size)))
    /\ UNCHANGED <<dir, files, script, ip, exit, written, attempts, snap>>

DrawVBar(i) ==
    /\ exit = "running"
    /\ frame[i].pc = "vbar"
    /\ frame' = SetImg(i, Draw(frame[i].img, VBarOp(frame[i].size)))
    /\ UNCHANGED <<dir, files, script, ip, exit, written, attempts, snap>>

DrawHBar(i) ==
    /\ exit = "running"
    /\ frame[i].pc = "hbar"
    /\ frame' = SetImg(i, Draw(frame[i].img, HBarOp(frame[i].size)))
    /\ UNCHANGED <<dir, files, script, ip, exit, written, attempts, snap>>

SaveOK(i) ==
    /\ exit = "running"
    /\ frame[i].pc = "save"
    /\ CanOpen(dir, files[frame[i].output_path])
    /\ files' = [files EXCEPT ![frame[i].output_path] = Store(@, frame[i].img)]
    /\ written' = written \cup {frame[i].output_path}
    /\ attempts' = attempts + 1
    /\ frame' = [frame EXCEPT ![i].pc = NextPc(@)]
    /\ ip' = i + 1
    /\ UNCHANGED <<dir, script, exit, snap>>

SaveFail(i) ==
    /\ exit = "running"
    /\ frame[i].pc = "save"
    /\ ~CanOpen(dir, files[frame[i].output_path])
    /\ attempts' = attempts + 1
    /\ frame' = [frame EXCEPT ![i].pc = "raised", ![i].error = "OSError"]
    /\ ip' = OnRaise(i).ip
    /\ exit' = OnRaise(i).exit
    /\ UNCHANGED <<dir, files, script, written, snap>>

\* Falling off the end of the module: exit status 0.
Finish ==
    /\ exit = "running"
    /\ ip > Len(script)
    /\ exit' = "success"
    /\ UNCHANGED <<dir, files, script, ip, frame, written, attempts, snap>>

Step(i) ==
    \/ New(i)
    \/ DrawOutline(i)
    \/ DrawVBar(i)
    \/ DrawHBar(i)
    \/ SaveOK(i)
    \/ SaveFail(i)

Next ==
    \/ \E i \in Calls : Call(i)
    \/ \E i \in Calls : Step(i)
    \/ Finish

Spec == Init /\ [][Next]_vars

\* The interpreter is a single thread that runs every statement it reaches.
FairSpec == Spec /\ WF_vars(Next)

\* create_icon applied to every size and path.
SpecArgs == InitArgs /\ [][Next]_vars

----------------------------------------------------------------------------
\* The two calls run as concurrent activities instead of one after the other:
\* the same statements of create_icon, each call on its own activation, the
\* statements of the two calls interleaved in every possible way.

Spawn(i) ==
    /\ exit = "running"
    /\ frame[i].pc = "pending"
    /\ Enter(i)
    /\ UNCHANGED <<dir, files, script, ip, exit, written, attempts>>

Join ==
    /\ exit = "running"
    /\ \A i \in Calls : frame[i].pc = "returned"
    /\ exit' = "success"
    /\ UNCHANGED <<dir, files, script, ip, frame, written, attempts, snap>>

NextPar ==
    \/ \E i \in Calls : Spawn(i)
    \/ \E i \in Calls : Step(i)
    \/ Join

SpecPar == Init /\ [][NextPar]_vars

----------------------------------------------------------------------------
\* Shorthands used by the properties below.

Terminated == exit # "running"

Image(p) == files[p].img

\* Distance between the two corners of a drawing call's box, per axis.
ExtentX(op) == op.xy[3] - op.xy[1]
ExtentY(op) == op.xy[4] - op.xy[2]

\* The drawing calls made so far by activation i.
Ops(i) == frame[i].img.ops

\* create_icon as a function on the filesystem, when the write succeeds.
CreateIcon(fs, a) == [fs EXCEPT ![a.path] = Store(@, Render(a.size))]

\* The filesystem after the sequential run of the two calls of a script.
RunSeq(fs, sc) == CreateIcon(CreateIcon(fs, sc[1]), sc[2])

\* Both paths are overwritten, so the result does not depend on what was there.
SequentialResult == RunSeq([p \in Paths |-> Absent], TheScript)

\* The sequential program ends in success with exactly SequentialResult.
SequentialResultIsFinal == exit = "success" => files = SequentialResult

----------------------------------------------------------------------------
\* C1: fail-fast, no recovery.  The call for 192 comes first and the call for
\* 512 second; a failed write ends the program there: no later call is
\* entered, no save is retried.  A terminated run has written 2 files
\* (success) or 0 or 1 (failure), and never icon-512.png after the write of
\* icon-192.png failed.
C1_FailFast ==
    /\ frame[2].pc # "pending" => frame[1].pc = "returned"
    /\ \A i \in Calls : frame[i].pc # "pending" => frame[i].size = TheScript[i].size
                                                /\ frame[i].output_path = TheScript[i].path
    /\ \A i, j \in Calls : i < j /\ frame[i].pc = "raised" => frame[j].pc = "pending"
    /\ (\E i \in Calls : frame[i].pc = "raised") => Terminated
    /\ attempts <= Cardinality(written) + 1
    /\ exit = "success" => /\ Cardinality(written) = 2
                           /\ \A i \in Calls : frame[i].pc = "returned"
    /\ exit = "failure" => /\ Cardinality(written) \in {0, 1}
                           /\ attempts = Cardinality(written) + 1
    /\ frame[1].pc = "raised" => P512 \notin written

\* A run that wrote icon-192.png and then failed on icon-512.png.
C1_Witness ==
    /\ exit = "failure"
    /\ written = {P192}
    /\ frame[2].pc = "raised"

\* C2: with the parent directory missing, a call of create_icon for any size
\* and path never returns normally; it raises a filesystem error and leaves
\* the filesystem as it found it, with no file at output_path.
C2_MissingDirRaises ==
    dir = "missing" =>
        \A i \in Calls :
            /\ frame[i].pc # "returned"
            /\ frame[i].pc = "raised" =>
                  /\ frame[i].error = "OSError"
                  /\ files = snap[i]
                  /\ files[frame[i].output_path].kind = "absent"
                  /\ written = {}

C2_Witness ==
    /\ dir = "missing"
    /\ frame[1].pc = "raised"
    /\ frame[1].size = 192

\* C3: the success exit is reached only after both files are written;
\* at success icon-192.png is a 192x192 image and icon-512.png a 512x512
\* image; and with icons/ existing and writable the run eventually ends in
\* success.
C3_SuccessAfterBoth ==
    /\ [](exit = "success" =>
            /\ written = Paths
            /\ \A i \in Calls : frame[i].pc = "returned"
            /\ files[P192].kind = "png" /\ Image(P192).size = <<192, 192>>
            /\ files[P512].kind = "png" /\ Image(P512).size = <<512, 512>>)
    /\ (dir = "writable" ~> exit = "success")

C3_Witness ==
    /\ exit = "success"
    /\ dir = "writable"
    /\ snap[1][P192].kind = "other"

\* C4: run concurrently, in any order and interleaving of their statements,
\* the two calls leave, when both writes succeed, the same two files as the
\* sequential run 192-then-512.
C4_InterleavingIndependent ==
    exit = "success" => files = SequentialResult

\* Both calls were entered before either wrote its file.
C4_Witness ==
    /\ exit = "success"
    /\ snap[1] = snap[2]
    /\ files # snap[1]

\* C5: idempotence.  The file a successful call leaves is the rendering of its
\* size alone, whatever was at the path before and whatever call came before;
\* the second of two successive identical calls leaves the filesystem as the
\* first left it.
C5_Idempotent ==
    /\ \A i \in Calls :
          frame[i].pc = "returned" =>
              files[frame[i].output_path] = PNG(Render(frame[i].size))
    /\ frame[2].pc = "returned" => files = snap[2]

\* The second call has returned, over a path that held something else at first.
C5_Witness ==
    /\ frame[2].pc = "returned"
    /\ snap[1][frame[2].output_path].kind = "other"
    /\ frame[2].size = 512

\* C6: the stroke width of the outline is max(2, s div 25): at least 2 for
\* every s > 0, exactly 2 for s < 75, s div 25 for s >= 50, 7 for 192 and 20
\* for 512.
C6_BorderWidth ==
    \A i \in Calls :
        Len(Ops(i)) >= 1 =>
            LET s == frame[i].size
                w == Ops(i)[1].width
            IN  /\ Ops(i)[1].shape = "rounded_rectangle"
                /\ w = (IF s \div 25 > 2 THEN s \div 25 ELSE 2)
                /\ w >= 2
                /\ s < 75 => w = 2
                /\ s >= 50 => w = s \div 25
                /\ s = 192 => w = 7
                /\ s = 512 => w = 20

\* The outline of a canvas so small that the floor applies.
C6_Witness ==
    /\ Len(Ops(1)) >= 1
    /\ frame[1].size = 10
    /\ Ops(1)[1].width = 2

\* The two bars are centred at (s div 2, s div 2).
BarsCentred(i) ==
    LET c == frame[i].size \div 2
    IN  \A k \in {2, 3} :
            /\ Ops(i)[k].shape = "rectangle"
            /\ Ops(i)[k].xy[1] + Ops(i)[k].xy[3] = 2 * c
            /\ Ops(i)[k].xy[2] + Ops(i)[k].xy[4] = 2 * c

\* C7 as stated: for every s > 0 the bars are centred at (s div 2, s div 2),
\* and the extent of the box passed to the drawing call is s div 3 along a
\* bar's long side and s div 8 along its short side.
C7_BarExtentsAsStated ==
    \A i \in Calls :
        Len(Ops(i)) = 3 =>
            LET s == frame[i].size
            IN  /\ BarsCentred(i)
                /\ ExtentY(Ops(i)[2]) = s \div 3
                /\ ExtentX(Ops(i)[2]) = s \div 8
                /\ ExtentX(Ops(i)[3]) = s \div 3
                /\ ExtentY(Ops(i)[3]) = s \div 8

\* C7 amended: the bars are centred at (s div 2, s div 2); the extent of the
\* box passed to the drawing call is 2 * ((s div 3) div 2) along a bar's long
\* side and 2 * ((s div 8) div 2) along its short side, which is s div 3
\* (s div 8) when that number is even and one less when it is odd; for 192
\* the extents are 64 and 24, for 512 they are 170 and 64.
C7_BarExtents ==
    \A i \in Calls :
        Len(Ops(i)) = 3 =>
            LET s == frame[i].size
                long == s \div 3
                short == s \div 8
                v == Ops(i)[2]
                h == Ops(i)[3]
            IN  /\ BarsCentred(i)
                /\ ExtentY(v) = 2 * (long \div 2)
                /\ ExtentX(v) = 2 * (short \div 2)
                /\ ExtentX(h) = 2 * (long \div 2)
                /\ ExtentY(h) = 2 * (short \div 2)
                /\ ExtentY(v) = (IF long % 2 = 0 THEN long ELSE long - 1)
                /\ ExtentX(v) = (IF short % 2 = 0 THEN short ELSE short - 1)
                /\ s = 192 => ExtentY(v) = 64 /\ ExtentX(v) = 24
                /\ s = 512 => ExtentY(v) = 170 /\ ExtentX(v) = 64

\* Both bars drawn for a size whose arm span (5) is odd.
C7_Witness ==
    /\ Len(Ops(1)) = 3
    /\ frame[1].size = 16
    /\ ExtentY(Ops(1)[2]) = 4

\* C8: the outline is drawn as a rounded rectangle, not filled, with box
\* (p, p) to (s - p, s - p) for p = s div 10; the box is well-formed and twice
\* the corner radius s div 6 fits in its side, so the stroke, which the
\* drawing call lays inward from the box, stays within [p, s - p].
C8_OutlineBox ==
    \A i \in Calls :
        Len(Ops(i)) >= 1 =>
            LET s == frame[i].size
                p == s \div 10
                o == Ops(i)[1]
            IN  /\ o.shape = "rounded_rectangle"
                /\ o.fill = "none"
                /\ o.outline = GOLD
                /\ o.xy = <<p, p, s - p, s - p>>
                /\ p <= s - p
                /\ o.radius = s \div 6
                /\ 2 * o.radius <= s - 2 * p
                /\ o.width >= 0

C8_Witness ==
    /\ Len(Ops(1)) >= 1
    /\ frame[1].size = 512
    /\ Ops(1)[1].xy = <<51, 51, 461, 461>>

\* C9: inside a call the canvas is allocated s x s and filled with the
\* background before anything is drawn; then come the outline, the vertical
\* bar, the horizontal bar, and only then the save.  Every file a call wrote
\* holds the complete badge at the requested dimensions.
C9_StepOrder ==
    /\ \A i \in Calls :
          LET f == frame[i]
              s == f.size
          IN  /\ f.pc \in {"pending", "new"} => f.img = NoImage
              /\ f.pc \notin {"pending", "new"} =>
                    /\ f.img.size = <<s, s>>
                    /\ f.img.bg = BG
              /\ f.pc = "outline" => f.img.ops = <<>>
              /\ f.pc = "vbar" => f.img.ops = <<OutlineOp(s)>>
              /\ f.pc = "hbar" => f.img.ops = <<OutlineOp(s), VBarOp(s)>>
              /\ f.pc \in {"save", "returned", "raised"} =>
                    f.img.ops = <<OutlineOp(s), VBarOp(s), HBarOp(s)>>
    /\ \A p \in written :
          \E i \in Calls :
              LET s == frame[i].size
              IN  /\ frame[i].output_path = p
                  /\ files[p].kind = "png"
                  /\ Image(p).size = <<s, s>>
                  /\ Image(p).bg = BG
                  /\ Image(p).ops = <<OutlineOp(s), VBarOp(s), HBarOp(s)>>

C9_Witness ==
    /\ frame[1].pc = "returned"
    /\ frame[1].size = 192
    /\ frame[1].output_path \in written

\* C10: for s >= 10 every coordinate passed to a drawing call lies in
\* 0 .. s - 1, and both bars lie between the inner edges of the outline,
\* p + border_width and s - p - border_width, on both axes.
C10_InsideCanvas ==
    \A i \in Calls :
        frame[i].size >= 10 =>
            LET s == frame[i].size
            IN  /\ \A k \in 1..Len(Ops(i)) :
                      \A n \in 1..4 : Ops(i)[k].xy[n] \in 0..(s - 1)
                /\ \A k \in 2..Len(Ops(i)) :
                      LET o == Ops(i)[1]
                          b == Ops(i)[k]
                      IN  /\ b.xy[1] >= o.xy[1] + o.width
                          /\ b.xy[2] >= o.xy[2] + o.width
                          /\ b.xy[3] <= o.xy[3] - o.width
                          /\ b.xy[4] <= o.xy[4] - o.width

\* The smallest size the claim covers, fully drawn.
C10_Witness ==
    /\ Len(Ops(1)) = 3
    /\ frame[1].size = 10

====
